---- MODULE Spec2Model ----
(***************************************************************************)
(* A model of the JSONPlaceholder API client: the generic request executor *)
(* apiClient (src/src/services/apiClient.ts), its two query helpers        *)
(* fetchData and fetchFilteredData, and deleteUser                         *)
(* (src/src/services/userService.ts).                                      *)
(*                                                                         *)
(* Representation.  A JavaScript string on which the code computes (it is  *)
(* concatenated, encoded or compared for emptiness) is a sequence of       *)
(* one-character strings, so that template literals are \o and the         *)
(* URLSearchParams encoding is a map over characters; a literal the code   *)
(* never takes apart (the base URL, a content type, a caller's own header  *)
(* value, the fixed prefix of a message) is one element holding it whole.  *)
(* Opaque values (object keys, HTTP methods, bodies, decoded JSON values,  *)
(* error names) are TLA+ strings.  A JavaScript object is a function whose *)
(* domain is the set of its own keys: an absent key models undefined.      *)
(***************************************************************************)
EXTENDS Integers, Sequences, FiniteSets, TLC

VARIABLES pc, op, args, requests, transport, jsonCalls, caught, console,
          inner, outcome

vars == <<pc, op, args, requests, transport, jsonCalls, caught, console,
          inner, outcome>>

(***************************************************************************)
(* Bounds of the model.                                                    *)
(***************************************************************************)
\* Largest number of entries of a filters object.
MaxFilters == 2
\* Number of calls in flight together in the concurrent specification.
NumCalls == 2

(***************************************************************************)
(* JavaScript objects and strings.                                         *)
(***************************************************************************)
EmptyObject == <<>>

Has(o, k) == k \in DOMAIN o

\* { ...a, ...b }: the keys of both, b's value on a key both have.
Spread(a, b) ==
  [k \in (DOMAIN a) \cup (DOMAIN b) |-> IF k \in DOMAIN b THEN b[k] ELSE a[k]]

\* Truthiness of a string: every string but the empty one.
TruthyString(s) == s # <<>>

\* Truthiness of a number (NaN is not modelled): every number but zero.
TruthyNumber(n) == n # 0

DigitChars == <<"0","1","2","3","4","5","6","7","8","9">>

RECURSIVE DigitsOf(_)
DigitsOf(n) ==
  IF n < 10 THEN <<DigitChars[n + 1]>>
  ELSE DigitsOf(n \div 10) \o <<DigitChars[(n % 10) + 1]>>

\* Number.prototype.toString / template-literal conversion of an integer.
NumberToString(n) == IF n < 0 THEN <<"-">> \o DigitsOf(-n) ELSE DigitsOf(n)

(***************************************************************************)
(* apiClient: the request it builds.                                       *)
(***************************************************************************)
BASE_URL == <<"https://jsonplaceholder.typicode.com">>

ApplicationJson == <<"application/json">>

BearerPrefix == <<"Bearer ">>

\* The options parameter with its default {}.
Options(a) == IF Has(a, "options") THEN a.options ELSE EmptyObject

\* ...options.headers: spreading undefined adds nothing.
CallerHeaders(a) ==
  IF Has(Options(a), "headers") THEN Options(a).headers ELSE EmptyObject

DefaultHeadersNone == EmptyObject

DefaultHeaders == "Content-Type" :> ApplicationJson

AuthHeaderIfPassed(a) ==
  IF Has(a, "authToken")
  THEN "Authorization" :> (BearerPrefix \o a.authToken)
  ELSE EmptyObject

\* ...(authToken ? { Authorization: `Bearer ${authToken}` } : {})
AuthHeader(a) ==
  IF Has(a, "authToken") /\ TruthyString(a.authToken)
  THEN "Authorization" :> (BearerPrefix \o a.authToken)
  ELSE EmptyObject

MergedHeadersCallerLast(a) ==
  Spread(Spread(DefaultHeaders, AuthHeader(a)), CallerHeaders(a))

\* The headers literal of config.
MergedHeaders(a) ==
  Spread(Spread(DefaultHeaders, CallerHeaders(a)), AuthHeader(a))

\* const config = { ...options, headers: {...} }
Config(a) == Spread(Options(a), "headers" :> MergedHeaders(a))

\* The arguments fetch is called with.
Request(a) == [url |-> BASE_URL \o a.endpoint, config |-> Config(a)]

(***************************************************************************)
(* apiClient: errors and results.                                          *)
(***************************************************************************)
HttpErrorPrefix == <<"HTTP error! Status: ">>

HttpErrorNoStatus(status) == [name |-> "Error", message |-> HttpErrorPrefix]

\* new Error(`HTTP error! Status: ${response.status}`)
HttpError(status) ==
  [name |-> "Error", message |-> HttpErrorPrefix \o NumberToString(status)]

Pending == [state |-> "pending"]
Fulfilled(v) == [state |-> "fulfilled", value |-> v]
\* A promise fulfilled with undefined.
FulfilledUndefined == [state |-> "fulfilled"]
Rejected(e) == [state |-> "rejected", reason |-> e]

(***************************************************************************)
(* fetchData.                                                              *)
(***************************************************************************)
LikeSuffix == <<"_","l","i","k","e","=">>

\* The searchTerm parameter with its default "".
SearchTerm(fa) == IF Has(fa, "searchTerm") THEN fa.searchTerm ELSE <<>>

fetchDataEndpointAlwaysQuery(fa) ==
  <<"/">> \o fa.resource \o <<"?">> \o fa.searchField \o LikeSuffix
    \o SearchTerm(fa)

\* const endpoint = searchTerm ? `/${resource}?${searchField}_like=${searchTerm}`
\*                             : `/${resource}`
fetchDataEndpoint(fa) ==
  IF TruthyString(SearchTerm(fa))
  THEN <<"/">> \o fa.resource \o <<"?">> \o fa.searchField \o LikeSuffix
         \o SearchTerm(fa)
  ELSE <<"/">> \o fa.resource

\* return apiClient<T[]>(endpoint): the arguments apiClient receives.
fetchData(fa) == [endpoint |-> fetchDataEndpoint(fa)]

(***************************************************************************)
(* fetchFilteredData.  The filters object is the sequence of its           *)
(* [field, value] properties in the order they were inserted; a value is   *)
(* [str |-> s] or [num |-> n].                                             *)
(***************************************************************************)
RECURSIVE StringToNumber(_)
StringToNumber(s) ==
  IF s = <<>> THEN 0
  ELSE StringToNumber(SubSeq(s, 1, Len(s) - 1)) * 10
         + ((CHOOSE i \in 1..10 : DigitChars[i] = s[Len(s)]) - 1)

\* An integer-index property key: a canonical numeric string below 2^32 - 1.
IsArrayIndex(s) ==
  /\ s # <<>>
  /\ \A i \in 1..Len(s) : \E d \in 1..10 : DigitChars[d] = s[i]
  /\ (Len(s) > 1 => s[1] # "0")
  /\ Len(s) <= 9

IndexEntry(e) == IsArrayIndex(e.field)
NamedEntry(e) == ~IsArrayIndex(e.field)
IndexBefore(e, f) == StringToNumber(e.field) < StringToNumber(f.field)

\* Object.entries(filters): own properties, integer-index keys in ascending
\* numeric order first, then the other keys in insertion order.
ObjectEntries(filters) ==
  SortSeq(SelectSeq(filters, IndexEntry), IndexBefore)
    \o SelectSeq(filters, NamedEntry)

\* value.toString() of a string | number.
ValueToString(v) == IF Has(v, "num") THEN NumberToString(v.num) ELSE v.str

\* The characters the application/x-www-form-urlencoded serializer leaves as
\* they are.
Unreserved ==
  {"a","b","c","d","e","f","g","h","i","j","k","l","m","n","o","p","q","r",
   "s","t","u","v","w","x","y","z",
   "A","B","C","D","E","F","G","H","I","J","K","L","M","N","O","P","Q","R",
   "S","T","U","V","W","X","Y","Z",
   "0","1","2","3","4","5","6","7","8","9","*","-",".","_"}

\* The percent-encoding of the other ASCII characters of the model.
PercentCode ==
  ("&" :> <<"%","2","6">>) @@ ("=" :> <<"%","3","D">>)
    @@ ("+" :> <<"%","2","B">>) @@ ("%" :> <<"%","2","5">>)
    @@ ("?" :> <<"%","3","F">>) @@ ("/" :> <<"%","2","F">>)
    @@ ("#" :> <<"%","2","3">>)

EncodeCharIdentity(ch) == <<ch>>

EncodeChar(ch) ==
  IF ch \in Unreserved THEN <<ch>>
  ELSE IF ch = " " THEN <<"+">>
  ELSE PercentCode[ch]

RECURSIVE FormEncode(_)
FormEncode(s) ==
  IF s = <<>> THEN <<>> ELSE EncodeChar(Head(s)) \o FormEncode(Tail(s))

\* URLSearchParams.prototype.toString(): name=value pairs joined by "&".
RECURSIVE URLSearchParamsToString(_)
URLSearchParamsToString(params) ==
  IF params = <<>> THEN <<>>
  ELSE FormEncode(params[1].name) \o <<"=">> \o FormEncode(params[1].value)
         \o (IF Len(params) = 1 THEN <<>>
             ELSE <<"&">> \o URLSearchParamsToString(Tail(params)))

\* The options parameter with its default {}.
FilterOptions(fa) == IF Has(fa, "options") THEN fa.options ELSE EmptyObject

Param(n, v) == [name |-> n, value |-> v]

\* Object.entries(filters).forEach(([field, value]) =>
\*   queryParams.append(field, value.toString()))
FilterParams(filters) ==
  LET es == ObjectEntries(filters)
  IN  [i \in 1..Len(es) |-> Param(es[i].field, ValueToString(es[i].value))]

OptionParamsIfPresent(o) ==
  (IF Has(o, "sortBy") THEN <<Param(<<"_","s","o","r","t">>, o.sortBy)>>
   ELSE <<>>)
  \o (IF Has(o, "order") THEN <<Param(<<"_","o","r","d","e","r">>, o.order)>>
      ELSE <<>>)
  \o (IF Has(o, "limit")
      THEN <<Param(<<"_","l","i","m","i","t">>, NumberToString(o.limit))>>
      ELSE <<>>)
  \o (IF Has(o, "start")
      THEN <<Param(<<"_","s","t","a","r","t">>, NumberToString(o.start))>>
      ELSE <<>>)

\* if (options.sortBy) ... if (options.order) ... if (options.limit) ...
\* if (options.start) ...: an option is appended when it is truthy.
OptionParams(o) ==
  (IF Has(o, "sortBy") /\ TruthyString(o.sortBy)
   THEN <<Param(<<"_","s","o","r","t">>, o.sortBy)>> ELSE <<>>)
  \o (IF Has(o, "order") /\ TruthyString(o.order)
      THEN <<Param(<<"_","o","r","d","e","r">>, o.order)>> ELSE <<>>)
  \o (IF Has(o, "limit") /\ TruthyNumber(o.limit)
      THEN <<Param(<<"_","l","i","m","i","t">>, NumberToString(o.limit))>>
      ELSE <<>>)
  \o (IF Has(o, "start") /\ TruthyNumber(o.start)
      THEN <<Param(<<"_","s","t","a","r","t">>, NumberToString(o.start))>>
      ELSE <<>>)

\* The entries of queryParams when the endpoint is built.
QueryParams(fa) == FilterParams(fa.filters) \o OptionParams(FilterOptions(fa))

\* const endpoint = `/${resource}?${queryParams.toString()}`
fetchFilteredDataEndpoint(fa) ==
  <<"/">> \o fa.resource \o <<"?">> \o URLSearchParamsToString(QueryParams(fa))

\* return apiClient<T[]>(endpoint): the arguments apiClient receives.
fetchFilteredData(fa) == [endpoint |-> fetchFilteredDataEndpoint(fa)]

(***************************************************************************)
(* deleteUser.                                                             *)
(***************************************************************************)
UsersPath == <<"/","u","s","e","r","s","/">>

\* apiClient<void>(`/users/${userId}`, { method: "DELETE" }, authToken):
\* an authToken left out is passed on as undefined.
deleteUser(da) ==
  Spread([endpoint |-> UsersPath \o NumberToString(da.userId),
          options |-> [method |-> "DELETE"]],
         IF Has(da, "authToken") THEN "authToken" :> da.authToken
         ELSE EmptyObject)

(***************************************************************************)
(* The inputs the calls are made with and the answers of the transport.    *)
(***************************************************************************)
\* An object with the property k set to a value of S, or without it.
OptionalField(k, S) == {EmptyObject} \cup {k :> v : v \in S}

BasicPw == <<"Basic pw">>
TextPlain == <<"text/plain">>
Users == <<"u","s","e","r","s">>
Posts == <<"p","o","s","t","s">>

Endpoints == {<<"/">> \o Users, <<"/">> \o Posts \o <<"/","1">>}

\* Tokens a caller passes: the empty string and a credential.
Tokens == {<<>>, <<"t","k","1">>}

HeaderObjects ==
  {EmptyObject,
   "Authorization" :> BasicPw,
   "Content-Type" :> TextPlain,
   ("X-Trace" :> <<"7">>) @@ ("Authorization" :> BasicPw)}

OptionObjects ==
  {Spread(Spread(h, m), b) :
     h \in OptionalField("headers", HeaderObjects),
     m \in OptionalField("method", {"POST"}),
     b \in OptionalField("body", {"{}"})}

ApiClientArgs ==
  {Spread(Spread("endpoint" :> e, o), t) :
     e \in Endpoints,
     o \in OptionalField("options", OptionObjects),
     t \in OptionalField("authToken", Tokens)}

FetchDataArgs ==
  {Spread([resource |-> r, searchField |-> f], t) :
     r \in {Users, Posts},
     f \in {<<"n","a","m","e">>, <<"i","d">>},
     t \in OptionalField("searchTerm",
                         {<<>>, <<"L","e","a">>, <<"a"," ","&","b">>})}

FilterFields == {<<"n","a","m","e">>, <<"2">>, <<"1","0">>}

FilterValues == {[str |-> <<"L"," ","&">>], [str |-> <<"=">>], [num |-> 12]}

FilterEntries == {[field |-> f, value |-> v] : f \in FilterFields, v \in FilterValues}

\* The filters objects of at most MaxFilters properties: no key twice.
FilterObjects ==
  UNION {{fs \in [1..n -> FilterEntries] :
            \A i, j \in 1..n : i # j => fs[i].field # fs[j].field} :
         n \in 0..MaxFilters}

FilterOptionObjects ==
  {Spread(Spread(s, o), Spread(l, t)) :
     s \in OptionalField("sortBy", {<<>>, <<"i","d">>}),
     o \in OptionalField("order", {<<"a","s","c">>, <<"d","e","s","c">>}),
     l \in OptionalField("limit", {0, 5, -1}),
     t \in OptionalField("start", {0, 10})}

FetchFilteredDataArgs ==
  {Spread([resource |-> Users, filters |-> fs], o) :
     fs \in FilterObjects,
     o \in OptionalField("options", FilterOptionObjects)}

DeleteUserArgs ==
  {Spread("userId" :> i, t) :
     i \in {1, 12}, t \in OptionalField("authToken", Tokens)}

\* What the transport may answer: a rejection of fetch, a response with its
\* ok flag and status, and for json() a decoded value or a rejection.
FetchErrors ==
  {[name |-> "TypeError", message |-> <<"fetch failed">>]}

Responses ==
  {[ok |-> TRUE, status |-> 200], [ok |-> FALSE, status |-> 404],
   [ok |-> FALSE, status |-> 500]}

JsonValues == {"null", "[{id:1}]"}

JsonErrors ==
  {[name |-> "SyntaxError", message |-> <<"Unexpected end of JSON input">>]}

(***************************************************************************)
(* The calls.  pc[c] is the place call c has reached: "idle" (not made),   *)
(* "awaitFetch" and "awaitJson" (suspended at an await of apiClient),      *)
(* "catch" and "rethrow" (in apiClient's catch block, before and after     *)
(* console.error), "settled" (apiClient's promise settled) and "returned"  *)
(* (the promise of the helper that called apiClient settled).              *)
(***************************************************************************)
Calls == DOMAIN pc

InitCalls(cs) ==
  /\ pc = [c \in cs |-> "idle"]
  /\ op = [c \in cs |-> "none"]
  /\ args = [c \in cs |-> EmptyObject]
  /\ requests = [c \in cs |-> <<>>]
  /\ transport = [c \in cs |-> EmptyObject]
  /\ jsonCalls = [c \in cs |-> 0]
  /\ caught = [c \in cs |-> EmptyObject]
  /\ console = <<>>
  /\ inner = [c \in cs |-> Pending]
  /\ outcome = [c \in cs |-> Pending]

Init == InitCalls({1})

fetchTwice(c, req) ==
  requests' = [requests EXCEPT ![c] = Append(Append(@, req), req)]

\* fetch(`${BASE_URL}${endpoint}`, config): the transport receives a request.
fetch(c, req) == requests' = [requests EXCEPT ![c] = Append(@, req)]

\* apiClient from its entry to its first await, entered with the arguments a
\* by the exported function name, itself called with opArgs.
Enter(c, name, opArgs, a) ==
  /\ pc[c] = "idle"
  /\ op' = [op EXCEPT ![c] = name]
  /\ args' = [args EXCEPT ![c] = opArgs]
  /\ fetch(c, Request(a))
  /\ pc' = [pc EXCEPT ![c] = "awaitFetch"]
  /\ UNCHANGED <<transport, jsonCalls, caught, console, inner, outcome>>

\* A call of an exported function with arguments drawn from S.
CallApiClient(c, S) ==
  pc[c] = "idle" /\ \E a \in S : Enter(c, "apiClient", a, a)

CallFetchData(c, S) ==
  pc[c] = "idle" /\ \E fa \in S : Enter(c, "fetchData", fa, fetchData(fa))

CallFetchFilteredData(c, S) ==
  pc[c] = "idle"
    /\ \E fa \in S : Enter(c, "fetchFilteredData", fa, fetchFilteredData(fa))

CallDeleteUser(c, S) ==
  pc[c] = "idle" /\ \E da \in S : Enter(c, "deleteUser", da, deleteUser(da))

\* await fetch(...) throws: control passes to the catch block.
FetchRejects(c) ==
  /\ pc[c] = "awaitFetch"
  /\ \E e \in FetchErrors :
       /\ transport' = [transport EXCEPT ![c] = [fetchError |-> e]]
       /\ caught' = [caught EXCEPT ![c] = e]
  /\ pc' = [pc EXCEPT ![c] = "catch"]
  /\ UNCHANGED <<op, args, requests, jsonCalls, console, inner, outcome>>

\* await fetch(...) yields a response: a response that is not ok throws the
\* HTTP error, an ok one has json() called on it.
FetchResolves(c, Rs) ==
  /\ pc[c] = "awaitFetch"
  /\ \E r \in Rs :
       /\ transport' = [transport EXCEPT ![c] = r]
       /\ IF ~r.ok
          THEN /\ caught' = [caught EXCEPT ![c] = HttpError(r.status)]
               /\ pc' = [pc EXCEPT ![c] = "catch"]
               /\ UNCHANGED jsonCalls
          ELSE /\ jsonCalls' = [jsonCalls EXCEPT ![c] = @ + 1]
               /\ pc' = [pc EXCEPT ![c] = "awaitJson"]
               /\ UNCHANGED caught
  /\ UNCHANGED <<op, args, requests, console, inner, outcome>>

DataWrapped(v) == "{data}"

\* const data = (await response.json()) as T
Data(v) == v

\* await response.json() yields a value: return data.
JsonResolves(c) ==
  /\ pc[c] = "awaitJson"
  /\ \E v \in JsonValues :
       /\ transport' = [transport EXCEPT ![c] = Spread(@, "jsonValue" :> v)]
       /\ inner' = [inner EXCEPT ![c] = Fulfilled(Data(v))]
  /\ pc' = [pc EXCEPT ![c] = "settled"]
  /\ UNCHANGED <<op, args, requests, jsonCalls, caught, console, outcome>>

\* await response.json() throws: control passes to the catch block.
JsonRejects(c) ==
  /\ pc[c] = "awaitJson"
  /\ \E e \in JsonErrors :
       /\ transport' = [transport EXCEPT ![c] = Spread(@, "jsonError" :> e)]
       /\ caught' = [caught EXCEPT ![c] = e]
  /\ pc' = [pc EXCEPT ![c] = "catch"]
  /\ UNCHANGED <<op, args, requests, jsonCalls, console, inner, outcome>>

LoggedNothing(c) == console

\* The diagnostic stream after console.error("API call failed:", error).
Logged(c) == Append(console, [call |-> c, error |-> caught[c]])

ConsoleError(c) ==
  /\ pc[c] = "catch"
  /\ console' = Logged(c)
  /\ pc' = [pc EXCEPT ![c] = "rethrow"]
  /\ UNCHANGED <<op, args, requests, transport, jsonCalls, caught, inner,
                 outcome>>

\* throw error: apiClient's promise is rejected with the caught error.
Rethrow(c) ==
  /\ pc[c] = "rethrow"
  /\ inner' = [inner EXCEPT ![c] = Rejected(caught[c])]
  /\ pc' = [pc EXCEPT ![c] = "settled"]
  /\ UNCHANGED <<op, args, requests, transport, jsonCalls, caught, console,
                 outcome>>

deleteUserResultData(p) == p

\* async deleteUser: await apiClient(...) and no return statement.
deleteUserResult(p) == IF p.state = "fulfilled" THEN FulfilledUndefined ELSE p

\* return apiClient(...) of an async function: its promise settles as
\* apiClient's did.
Adopted(p) == p

ReturnFetchData(c) ==
  /\ pc[c] = "settled" /\ op[c] = "fetchData"
  /\ outcome' = [outcome EXCEPT ![c] = Adopted(inner[c])]
  /\ pc' = [pc EXCEPT ![c] = "returned"]
  /\ UNCHANGED <<op, args, requests, transport, jsonCalls, caught, console,
                 inner>>

ReturnFetchFilteredData(c) ==
  /\ pc[c] = "settled" /\ op[c] = "fetchFilteredData"
  /\ outcome' = [outcome EXCEPT ![c] = Adopted(inner[c])]
  /\ pc' = [pc EXCEPT ![c] = "returned"]
  /\ UNCHANGED <<op, args, requests, transport, jsonCalls, caught, console,
                 inner>>

ReturnDeleteUser(c) ==
  /\ pc[c] = "settled" /\ op[c] = "deleteUser"
  /\ outcome' = [outcome EXCEPT ![c] = deleteUserResult(inner[c])]
  /\ pc' = [pc EXCEPT ![c] = "returned"]
  /\ UNCHANGED <<op, args, requests, transport, jsonCalls, caught, console,
                 inner>>

Next ==
  \/ \E c \in Calls : CallApiClient(c, ApiClientArgs)
  \/ \E c \in Calls : CallFetchData(c, FetchDataArgs)
  \/ \E c \in Calls : CallFetchFilteredData(c, FetchFilteredDataArgs)
  \/ \E c \in Calls : CallDeleteUser(c, DeleteUserArgs)
  \/ \E c \in Calls : FetchRejects(c)
  \/ \E c \in Calls : FetchResolves(c, Responses)
  \/ \E c \in Calls : JsonResolves(c)
  \/ \E c \in Calls : JsonRejects(c)
  \/ \E c \in Calls : ConsoleError(c)
  \/ \E c \in Calls : Rethrow(c)
  \/ \E c \in Calls : ReturnFetchData(c)
  \/ \E c \in Calls : ReturnFetchFilteredData(c)
  \/ \E c \in Calls : ReturnDeleteUser(c)

Spec == Init /\ [][Next]_vars

(***************************************************************************)
(* Several calls in flight together: the steps of the calls interleave at  *)
(* their awaits.  The arguments are drawn from a few of the inputs above.  *)
(***************************************************************************)
ConcApiClientArgs ==
  {a \in ApiClientArgs :
     /\ a.endpoint = <<"/">> \o Users
     /\ Has(a, "options") /\ a.options = [headers |-> "Authorization" :> BasicPw]
     /\ ~Has(a, "authToken")}

ConcFetchDataArgs ==
  {fa \in FetchDataArgs :
     /\ fa.resource = Posts /\ fa.searchField = <<"i","d">>
     /\ SearchTerm(fa) = <<"L","e","a">>}

ConcFetchFilteredDataArgs ==
  {fa \in FetchFilteredDataArgs :
     /\ Len(fa.filters) = 1 /\ fa.filters[1].value = [num |-> 12]
     /\ fa.filters[1].field = <<"2">>
     /\ FilterOptions(fa) = [limit |-> 5]}

ConcDeleteUserArgs ==
  {da \in DeleteUserArgs : da.userId = 12 /\ Has(da, "authToken")
                           /\ da.authToken # <<>>}

ConcResponses == {r \in Responses : r.status \in {200, 404}}

InitConc == InitCalls(1..NumCalls)

NextConc ==
  \/ \E c \in Calls : CallApiClient(c, ConcApiClientArgs)
  \/ \E c \in Calls : CallFetchData(c, ConcFetchDataArgs)
  \/ \E c \in Calls : CallFetchFilteredData(c, ConcFetchFilteredDataArgs)
  \/ \E c \in Calls : CallDeleteUser(c, ConcDeleteUserArgs)
  \/ \E c \in Calls : FetchRejects(c)
  \/ \E c \in Calls : FetchResolves(c, ConcResponses)
  \/ \E c \in Calls : JsonResolves(c)
  \/ \E c \in Calls : JsonRejects(c)
  \/ \E c \in Calls : ConsoleError(c)
  \/ \E c \in Calls : Rethrow(c)
  \/ \E c \in Calls : ReturnFetchData(c)
  \/ \E c \in Calls : ReturnFetchFilteredData(c)
  \/ \E c \in Calls : ReturnDeleteUser(c)

SpecConc == InitConc /\ [][NextConc]_vars

(***************************************************************************)
(* Properties.  What they read of a call c: the request the transport      *)
(* received, the arguments apiClient was entered with, and what the        *)
(* transport answered.                                                     *)
(***************************************************************************)
Made(c) == pc[c] # "idle"

\* The arguments apiClient received in call c.
ApiArgs(c) ==
  CASE op[c] = "apiClient" -> args[c]
    [] op[c] = "fetchData" -> fetchData(args[c])
    [] op[c] = "fetchFilteredData" -> fetchFilteredData(args[c])
    [] op[c] = "deleteUser" -> deleteUser(args[c])

SentHeaders(c) == requests[c][1].config.headers

NotOk(c) == Has(transport[c], "ok") /\ ~transport[c].ok

Failed(c) ==
  Has(transport[c], "fetchError") \/ Has(transport[c], "jsonError") \/ NotOk(c)

Finished(c) == pc[c] \in {"settled", "returned"}

Message404 == <<"HTTP error! Status: ","4","0","4">>

Message500 == <<"HTTP error! Status: ","5","0","0">>

\* C1: when the transport returns a response whose ok flag is false, with
\* status S, apiClient rejects with an Error whose message is exactly
\* "HTTP error! Status: S", and json() is never called on that response.
C1_NotOkRejectsWithStatus ==
  \A c \in Calls :
    NotOk(c) =>
      /\ jsonCalls[c] = 0
      /\ inner[c].state # "fulfilled"
      /\ Finished(c) =>
           /\ inner[c].state = "rejected"
           /\ inner[c].reason.name = "Error"
           /\ inner[c].reason.message =
                CASE transport[c].status = 404 -> Message404
                  [] transport[c].status = 500 -> Message500

C1_Witness ==
  \E c \in Calls :
    /\ NotOk(c) /\ transport[c].status = 404 /\ Finished(c)
    /\ Has(ApiArgs(c), "authToken") /\ Has(ApiArgs(c), "options")
    /\ inner[c].state = "rejected"

\* C2: when the response is ok and json() yields the value V, apiClient
\* resolves with exactly V, whatever the endpoint, options and token.
C2_ResolvesWithDecodedBody ==
  \A c \in Calls :
    /\ Has(transport[c], "jsonValue") =>
         inner[c] = [state |-> "fulfilled", value |-> transport[c].jsonValue]
    /\ inner[c].state = "fulfilled" =>
         /\ Has(transport[c], "jsonValue") /\ transport[c].ok
         /\ inner[c].value = transport[c].jsonValue

C2_Witness ==
  \E c \in Calls :
    /\ op[c] = "apiClient" /\ Has(args[c], "authToken")
    /\ Has(transport[c], "jsonValue") /\ transport[c].jsonValue = "[{id:1}]"
    /\ inner[c] = [state |-> "fulfilled", value |-> "[{id:1}]"]

MergeOf(c, withAuth) ==
  LET a == ApiArgs(c)
      own == IF Has(a, "options") /\ Has(a.options, "headers")
             THEN a.options.headers ELSE EmptyObject
      h == SentHeaders(c)
  IN  /\ DOMAIN h = {"Content-Type"} \cup DOMAIN own
                      \cup (IF withAuth THEN {"Authorization"} ELSE {})
      /\ \A k \in DOMAIN h :
           h[k] = IF withAuth /\ k = "Authorization"
                    THEN BearerPrefix \o a.authToken
                  ELSE IF k \in DOMAIN own THEN own[k]
                  ELSE ApplicationJson

C5_Original ==
  \A c \in Calls :
    Made(c) =>
      /\ Has(SentHeaders(c), "Content-Type")
      /\ SentHeaders(c)["Content-Type"] = ApplicationJson

\* C5, amended: every request carries a Content-Type header; its value is
\* application/json unless the caller's headers hold a Content-Type entry,
\* and then it is the caller's value.
C5_ContentTypeDefault ==
  \A c \in Calls :
    Made(c) =>
      LET a == ApiArgs(c)
          own == IF Has(a, "options") /\ Has(a.options, "headers")
                 THEN a.options.headers ELSE EmptyObject
      IN  /\ Has(SentHeaders(c), "Content-Type")
          /\ SentHeaders(c)["Content-Type"] =
               IF Has(own, "Content-Type") THEN own["Content-Type"]
               ELSE ApplicationJson

C5_Witness ==
  \E c \in Calls :
    /\ Made(c) /\ Has(ApiArgs(c), "options")
    /\ Has(CallerHeaders(ApiArgs(c)), "Authorization")
    /\ ~Has(CallerHeaders(ApiArgs(c)), "Content-Type")
    /\ SentHeaders(c)["Content-Type"] = ApplicationJson

LogsOf(c, stream) == SelectSeq(stream, LAMBDA l : l.call = c)

C6_State ==
  \A c \in Calls :
    LET logs == LogsOf(c, console)
    IN  /\ Len(logs) <= 1
        /\ logs # <<>> => Failed(c)
        /\ inner[c].state = "fulfilled" => ~Failed(c) /\ logs = <<>>
        /\ inner[c].state = "rejected" =>
             /\ Failed(c)
             /\ logs = <<[call |-> c, error |-> inner[c].reason]>>
             /\ Has(transport[c], "fetchError") =>
                  inner[c].reason = transport[c].fetchError
             /\ Has(transport[c], "jsonError") =>
                  inner[c].reason = transport[c].jsonError
        /\ (Failed(c) /\ Finished(c)) => inner[c].state = "rejected"

C6_Step ==
  \A c \in Calls :
    (inner[c].state = "pending" /\ inner'[c].state = "rejected") =>
      /\ LogsOf(c, console) = <<[call |-> c, error |-> inner'[c].reason]>>
      /\ console' = console

\* C6: on every failure path of apiClient (fetch rejects, the response is
\* not ok, json() rejects) the error is logged exactly once, in a state
\* before the one in which the call rejects; the call rejects with that same
\* error; no failed call resolves; a call that succeeds logs nothing.
C6_LoggedOnceThenRethrown == []C6_State /\ [][C6_Step]_vars

C6_Witness ==
  \E c \in Calls :
    /\ Has(transport[c], "jsonError") /\ inner[c].state = "rejected"
    /\ inner[c].reason = transport[c].jsonError
    /\ LogsOf(c, console) = <<[call |-> c, error |-> transport[c].jsonError]>>

(***************************************************************************)
(* Reading a sent endpoint back: its path, and its query string parsed as  *)
(* application/x-www-form-urlencoded into [name, value] pairs.             *)
(***************************************************************************)
SentEndpoint(c) ==
  SubSeq(requests[c][1].url, Len(BASE_URL) + 1, Len(requests[c][1].url))

Positions(s, ch) == {i \in 1..Len(s) : s[i] = ch}

Min(S) == CHOOSE i \in S : \A j \in S : i <= j

\* The part of s before the first ch (all of s when it holds none) and the
\* part after it.
Before(s, ch) ==
  IF Positions(s, ch) = {} THEN s ELSE SubSeq(s, 1, Min(Positions(s, ch)) - 1)

After(s, ch) ==
  IF Positions(s, ch) = {} THEN <<>>
  ELSE SubSeq(s, Min(Positions(s, ch)) + 1, Len(s))

RECURSIVE Pieces(_, _)
Pieces(s, ch) ==
  IF Positions(s, ch) = {} THEN <<s>>
  ELSE <<Before(s, ch)>> \o Pieces(After(s, ch), ch)

RECURSIVE FormDecode(_)
FormDecode(s) ==
  IF s = <<>> THEN <<>>
  ELSE IF Head(s) = "+" THEN <<" ">> \o FormDecode(Tail(s))
  ELSE IF Head(s) = "%"
    THEN <<CHOOSE ch \in DOMAIN PercentCode :
             PercentCode[ch] = SubSeq(s, 1, 3)>>
           \o FormDecode(SubSeq(s, 4, Len(s)))
  ELSE <<Head(s)>> \o FormDecode(Tail(s))

ParseQuery(q) ==
  IF q = <<>> THEN <<>>
  ELSE LET ps == Pieces(q, "&")
       IN  [i \in 1..Len(ps) |->
              [name |-> FormDecode(Before(ps[i], "=")),
               value |-> FormDecode(After(ps[i], "="))]]

\* The parameters the options of a fetchFilteredData call ask for: _sort,
\* _order, _limit, _start in this order, each when its option is set to a
\* truthy value.
WantedOptionParams(fa) ==
  LET o == IF Has(fa, "options") THEN fa.options ELSE EmptyObject
      sort == IF Has(o, "sortBy") /\ o.sortBy # <<>>
              THEN <<[name |-> <<"_","s","o","r","t">>, value |-> o.sortBy]>>
              ELSE <<>>
      ord == IF Has(o, "order") /\ o.order # <<>>
             THEN <<[name |-> <<"_","o","r","d","e","r">>, value |-> o.order]>>
             ELSE <<>>
      lim == IF Has(o, "limit") /\ o.limit # 0
             THEN <<[name |-> <<"_","l","i","m","i","t">>,
                     value |-> NumberToString(o.limit)]>>
             ELSE <<>>
      sta == IF Has(o, "start") /\ o.start # 0
             THEN <<[name |-> <<"_","s","t","a","r","t">>,
                     value |-> NumberToString(o.start)]>>
             ELSE <<>>
  IN  sort \o ord \o lim \o sta

\* One parameter per filter entry, in insertion order.
InsertionParams(fa) ==
  [i \in 1..Len(fa.filters) |->
     [name |-> fa.filters[i].field,
      value |-> IF Has(fa.filters[i].value, "num")
                THEN NumberToString(fa.filters[i].value.num)
                ELSE fa.filters[i].value.str]]

\* Entry i of the filters precedes entry j in the order of own property
\* keys: integer-index keys in ascending numeric order, then the other keys
\* in insertion order.
KeyPrecedes(fa, i, j) ==
  LET ki == fa.filters[i].field
      kj == fa.filters[j].field
  IN  IF IsArrayIndex(ki) /\ IsArrayIndex(kj)
        THEN StringToNumber(ki) < StringToNumber(kj)
      ELSE IF IsArrayIndex(ki) THEN TRUE
      ELSE IF IsArrayIndex(kj) THEN FALSE
      ELSE i < j

\* ps holds the filter parameters of fa, one per entry, in key order.
InKeyOrder(ps, fa) ==
  LET n == Len(fa.filters)
  IN  /\ Len(ps) = n
      /\ \E f \in [1..n -> 1..n] :
           /\ \A i \in 1..n : ps[f[i]] = InsertionParams(fa)[i]
           /\ \A i, j \in 1..n : i # j => (f[i] < f[j] <=> KeyPrecedes(fa, i, j))

IsFiltered(c) == Made(c) /\ op[c] = "fetchFilteredData"

\* C7 as stated: fetchFilteredData requests /<resource>?<query>, the query
\* holding one parameter per filter entry in insertion order, then _sort,
\* _order, _limit, _start, each exactly when its option is truthy.
C7_Original ==
  \A c \in Calls :
    IsFiltered(c) =>
      /\ Positions(SentEndpoint(c), "?") # {}
      /\ Before(SentEndpoint(c), "?") = <<"/">> \o args[c].resource
      /\ ParseQuery(After(SentEndpoint(c), "?"))
           = InsertionParams(args[c]) \o WantedOptionParams(args[c])

\* C7, amended: fetchFilteredData requests /<resource>?<query>, the query
\* holding one parameter per filter entry in the order Object.entries lists
\* them (integer-like field names in ascending numeric order first, then the
\* other fields in insertion order), then _sort, _order, _limit, _start,
\* each exactly when its option is truthy.
C7_QueryParameters ==
  \A c \in Calls :
    IsFiltered(c) =>
      LET ps == ParseQuery(After(SentEndpoint(c), "?"))
          n == Len(args[c].filters)
      IN  /\ Positions(SentEndpoint(c), "?") # {}
          /\ Before(SentEndpoint(c), "?") = <<"/">> \o args[c].resource
          /\ Len(ps) >= n
          /\ InKeyOrder(SubSeq(ps, 1, n), args[c])
          /\ SubSeq(ps, n + 1, Len(ps)) = WantedOptionParams(args[c])

\* fetchFilteredData("users", {name: "L &", 2: 12},
\*                   {sortBy: "id", limit: 0, start: 10})
C7_Witness ==
  \E c \in Calls :
    /\ IsFiltered(c)
    /\ args[c].filters
         = <<[field |-> <<"n","a","m","e">>, value |-> [str |-> <<"L"," ","&">>]],
             [field |-> <<"2">>, value |-> [num |-> 12]]>>
    /\ Has(args[c], "options")
    /\ args[c].options = [sortBy |-> <<"i","d">>, limit |-> 0, start |-> 10]
    /\ SentEndpoint(c)
         = <<"/","u","s","e","r","s","?","2","=","1","2","&",
             "n","a","m","e","=","L","+","%","2","6","&",
             "_","s","o","r","t","=","i","d","&",
             "_","s","t","a","r","t","=","1","0">>

IsFetchData(c) == Made(c) /\ op[c] = "fetchData"

\* C8: fetchData(r, f) with no search term or the empty one requests /r,
\* with no "?" and no query string; fetchData(r, f, t) with a non-empty t
\* requests exactly /r?f_like=t; the request carries no Authorization
\* header, no method and no body.
C8_FetchDataEndpoint ==
  \A c \in Calls :
    IsFetchData(c) =>
      LET fa == args[c]
      IN  /\ IF Has(fa, "searchTerm") /\ fa.searchTerm # <<>>
             THEN SentEndpoint(c)
                    = <<"/">> \o fa.resource \o <<"?">> \o fa.searchField
                        \o <<"_","l","i","k","e","=">> \o fa.searchTerm
             ELSE /\ SentEndpoint(c) = <<"/">> \o fa.resource
                  /\ Positions(SentEndpoint(c), "?") = {}
          /\ requests[c][1].url = BASE_URL \o SentEndpoint(c)
          /\ DOMAIN requests[c][1].config = {"headers"}
          /\ ~Has(SentHeaders(c), "Authorization")

\* fetchData("users", "name", "Lea")
C8_Witness ==
  \E c \in Calls :
    /\ IsFetchData(c)
    /\ args[c] = [resource |-> Users, searchField |-> <<"n","a","m","e">>,
                  searchTerm |-> <<"L","e","a">>]
    /\ SentEndpoint(c)
         = <<"/","u","s","e","r","s","?","n","a","m","e","_","l","i","k","e",
             "=","L","e","a">>

IsDelete(c) == Made(c) /\ op[c] = "deleteUser"

\* What C9 says of a deleteUser call but for the Authorization header.
DeleteContract(c) ==
  /\ Len(requests[c]) = 1
  /\ requests[c][1].config.method = "DELETE"
  /\ ~Has(requests[c][1].config, "body")
  /\ SentEndpoint(c) = <<"/","u","s","e","r","s","/">>
                         \o NumberToString(args[c].userId)
  /\ pc[c] = "returned" =>
       IF Failed(c)
       THEN outcome[c].state = "rejected" /\ outcome[c] = inner[c]
       ELSE outcome[c].state = "fulfilled" /\ ~Has(outcome[c], "value")
  /\ pc[c] # "returned" => outcome[c].state = "pending"

Own(c) ==
  <<pc[c], op[c], args[c], requests[c], transport[c], jsonCalls[c], caught[c],
    inner[c], outcome[c]>>

\* The settlement of apiClient in call c as its own response decides it.
OwnSettlement(c) ==
  IF Has(transport[c], "jsonValue")
    THEN [state |-> "fulfilled", value |-> transport[c].jsonValue]
  ELSE IF ~(Failed(c) /\ Finished(c)) THEN [state |-> "pending"]
  ELSE IF Has(transport[c], "fetchError")
    THEN [state |-> "rejected", reason |-> transport[c].fetchError]
  ELSE IF Has(transport[c], "jsonError")
    THEN [state |-> "rejected", reason |-> transport[c].jsonError]
  ELSE [state |-> "rejected",
        reason |-> [name |-> "Error",
                    message |-> HttpErrorPrefix
                                  \o NumberToString(transport[c].status)]]

C10_State ==
  \A c \in Calls :
    /\ ~Made(c) => requests[c] = <<>>
    /\ Made(c) =>
         /\ Len(requests[c]) = 1
         /\ requests[c][1] = Request(ApiArgs(c))
    /\ inner[c] = OwnSettlement(c)
    /\ outcome[c] =
         IF pc[c] # "returned" THEN [state |-> "pending"]
         ELSE IF op[c] = "deleteUser" /\ inner[c].state = "fulfilled"
           THEN [state |-> "fulfilled"]
         ELSE inner[c]

\* A step is a step of one call: it leaves all that belongs to the other
\* calls as it is, and it sends a request only when it makes the call.
C10_Step ==
  \E d \in Calls :
    /\ \A c \in Calls \ {d} : Own(c)' = Own(c)
    /\ requests'[d] # requests[d] => pc[d] = "idle"

\* C10: under any interleaving of concurrent calls each call issues exactly
\* one request, which its own arguments determine, and settles as the
\* response to its own request decides; no step of one call changes anything
\* of another call.
C10_CallsIndependent == []C10_State /\ [][C10_Step]_vars

\* Two calls with different arguments, each answered differently, the later
\* one logging first.
C10_Witness ==
  /\ \A c \in Calls : Finished(c)
  /\ op[1] = "apiClient" /\ op[2] = "deleteUser"
  /\ requests[1] # requests[2]
  /\ NotOk(1) /\ transport[1].status = 404 /\ inner[1].state = "rejected"
  /\ Has(transport[2], "jsonError") /\ pc[2] = "returned"
  /\ Len(console) >= 2 /\ console[1].call = 2 /\ console[2].call = 1
  /\ outcome[2] = [state |-> "rejected", reason |-> transport[2].jsonError]

====
